---- MODULE Spec2Model ----
(***************************************************************************)
(* Device registration and deregistration against the Amazon auth API:     *)
(* src/src/audible/register.py.                                            *)
(*                                                                         *)
(* Python values are represented as follows.                               *)
(*   - a str is a sequence of chunks (TLA+ strings); concatenation is \o,  *)
(*     and a str whose characters matter (cookie values, expires_in) has   *)
(*     one character per chunk;                                            *)
(*   - a value decoded from the response JSON is tagged with its type:     *)
(*     Obj (dict), Arr (list), Str, Num (int), Null;                       *)
(*   - the request body, built locally, is an untagged record.             *)
(***************************************************************************)
EXTENDS Integers, Sequences, FiniteSets, TLC

VARIABLES
    now,        \* the true time, in seconds on the POSIX scale
    tz,         \* the UTC offset of the process's local time zone, in seconds
    pc,         \* per call: idle, waiting, received, done, raised
    call,       \* per call: the operation and its arguments
    request,    \* per call: the POST that was sent
    posts,      \* per call: the number of POSTs sent so far
    response,   \* per call: the HTTP response (status_code, content)
    recvAt,     \* per call: the true time at which the response arrived
    clockRead,  \* per call: the true time at which line 49 read the clock
    result      \* per call: what the call returned or raised

vars == <<now, tz, pc, call, request, posts, response, recvAt, clockRead,
          result>>

----------------------------------------------------------------------------
(* Bounds of the model.                                                    *)

MaxClock == 1
MaxCookies == 3
MaxExpiresIn == 2

Procs == {"p1", "p2"}
Domains == {<<"com">>, <<"de">>}
Serials == {<<"S1">>, <<"S2">>}
AccessTokens == {<<"Atna|A">>, <<"Atna|B">>}
AuthCodes == {<<"codeA">>, <<"codeB">>}
Verifiers == {<<"verA">>, <<"verB">>}
Statuses == {200, 400, 503}
TzOffsets == {-1, 0, 1}

----------------------------------------------------------------------------
(* Decoded JSON values.                                                    *)

Obj(f) == [t |-> "obj", v |-> f]
Arr(s) == [t |-> "arr", v |-> s]
Str(s) == [t |-> "str", v |-> s]
Num(n) == [t |-> "int", v |-> n]
Null == [t |-> "null"]

(* Exceptions: the class and the args tuple.                               *)
Exc(kind, args) == [kind |-> kind, args |-> args]
Key(k) == [t |-> "key", v |-> k]
Ok(v) == [ok |-> TRUE, v |-> v]
Err(e) == [ok |-> FALSE, exc |-> e]

(* x.get(k): a lookup that yields None for a missing key.                  *)
Subscript_get(x, k) ==
    IF x.t = "obj"
    THEN IF k \in DOMAIN x.v THEN Ok(x.v[k]) ELSE Ok(Null)
    ELSE Err(Exc("TypeError", <<Key(x.t)>>))

(* x[k] for a str key k: a dict looks the key up (KeyError when absent);   *)
(* list, str, int and None do not take a str subscript (TypeError).        *)
Subscript(x, k) ==
    IF x.t = "obj"
    THEN IF k \in DOMAIN x.v THEN Ok(x.v[k]) ELSE Err(Exc("KeyError", <<Key(k)>>))
    ELSE Err(Exc("TypeError", <<Key(x.t)>>))

(* x[k1][k2]...: subscripts applied left to right, stopping at the first   *)
(* one that raises.                                                        *)
RECURSIVE Get(_, _)
Get(x, path) ==
    IF path = <<>> THEN Ok(x)
    ELSE LET r == Subscript(x, Head(path))
         IN IF r.ok THEN Get(r.v, Tail(path)) ELSE r

----------------------------------------------------------------------------
(* Requests.                                                               *)

(* login.build_client_id(serial): deterministic in the serial.             *)
build_client_id(serial) == <<"client_id(">> \o serial \o <<")">>

_build_registration_body(domain, serial) ==
    [requested_token_type |->
        <<"bearer", "mac_dms", "website_cookies", "store_authentication_cookie">>,
     cookies |->
        [website_cookies |-> <<>>,
         domain |-> <<".amazon.">> \o domain],
     registration_data |->
        [domain |-> "Device",
         app_version |-> "3.26.1",
         device_serial |-> serial,
         device_type |-> "A2CZJZGLK2JJVM",
         device_name |->
            "%FIRST_NAME%%FIRST_NAME_POSSESSIVE_STRING%%DUPE_STRATEGY_1ST%Audible for iPhone",
         os_version |-> "13.5.1",
         device_model |-> "iPhone",
         app_name |-> "Audible"],
     requested_extensions |-> <<"device_info", "customer_info">>]

(* body["auth_data"] = value                                               *)
SetAuthData(body, value) == [k \in DOMAIN body \cup {"auth_data"} |->
                                IF k = "auth_data" THEN value ELSE body[k]]

register_body(access_token, domain, serial) ==
    SetAuthData(_build_registration_body(domain, serial),
                [access_token |-> access_token])

(* The authorization-code body with the legacy domain also written to the *)
(* registration data.                                                      *)
register_auth_code_body_legacy(authorization_code, code_verifier, domain, serial) ==
    SetAuthData([_build_registration_body(domain, serial)
                    EXCEPT !.registration_data.domain = "DeviceLegacy"],
                [client_id |-> build_client_id(serial),
                 authorization_code |-> authorization_code,
                 code_verifier |-> code_verifier,
                 code_algorithm |-> "SHA-256",
                 client_domain |-> "DeviceLegacy"])

register_auth_code_body(authorization_code, code_verifier, domain, serial) ==
    SetAuthData(_build_registration_body(domain, serial),
                [client_id |-> build_client_id(serial),
                 authorization_code |-> authorization_code,
                 code_verifier |-> code_verifier,
                 code_algorithm |-> "SHA-256",
                 client_domain |-> "DeviceLegacy"])

register_url(domain) == <<"https://api.amazon.">> \o domain \o <<"/auth/register">>

deregister_url(domain) == <<"https://api.amazon.">> \o domain \o <<"/auth/deregister">>

deregister_body(deregister_all) == [deregister_all_existing_accounts |-> deregister_all]

deregister_headers(access_token) == [Authorization |-> <<"Bearer ">> \o access_token]

(* The parameter with True as its default.                                 *)
deregister_all_param_default_true(c) ==
    IF "deregister_all" \in DOMAIN c THEN c.deregister_all ELSE TRUE

(* The deregister_all parameter of a call c: the argument when the caller  *)
(* passed one, its default False otherwise.                                *)
deregister_all_param(c) ==
    IF "deregister_all" \in DOMAIN c THEN c.deregister_all ELSE FALSE

----------------------------------------------------------------------------
(* Responses.  The content of a response is either text that is JSON,      *)
(* given by the value it decodes to, or text that is not JSON.             *)

Json(v) == [json |-> TRUE, v |-> v]
NotJson(text) == [json |-> FALSE, v |-> [t |-> "text", v |-> text]]
Response(status_code, content) == [status_code |-> status_code, content |-> content]

(* resp.json()                                                             *)
resp_json_of(resp) ==
    IF resp.content.json THEN Ok(resp.content.v)
    ELSE Err(Exc("JSONDecodeError", <<Key("Expecting value")>>))

(* int(x) for a decoded value: an int is itself, a str is parsed as an     *)
(* optionally signed decimal numeral (ValueError otherwise), None, dict    *)
(* and list raise TypeError.                                               *)
Digits == <<"0", "1", "2", "3", "4", "5", "6", "7", "8", "9">>
IsDigit(c) == \E i \in DOMAIN Digits : Digits[i] = c
DigitVal(c) == (CHOOSE i \in DOMAIN Digits : Digits[i] = c) - 1

RECURSIVE Decimal(_, _)
Decimal(s, acc) ==
    IF s = <<>> THEN acc ELSE Decimal(Tail(s), 10 * acc + DigitVal(Head(s)))

AllDigits(s) == s # <<>> /\ \A i \in DOMAIN s : IsDigit(s[i])

py_int(x) ==
    IF x.t = "int" THEN Ok(x.v)
    ELSE IF x.t = "str"
    THEN IF AllDigits(x.v) THEN Ok(Decimal(x.v, 0))
         ELSE IF x.v # <<>> /\ Head(x.v) = "-" /\ AllDigits(Tail(x.v))
         THEN Ok(0 - Decimal(Tail(x.v), 0))
         ELSE IF x.v # <<>> /\ Head(x.v) = "+" /\ AllDigits(Tail(x.v))
         THEN Ok(Decimal(Tail(x.v), 0))
         ELSE Err(Exc("ValueError", <<Key("invalid literal for int()")>>))
    ELSE Err(Exc("TypeError", <<Key(x.t)>>))

(* _register, lines 36-48: decode the body, check the status, extract the  *)
(* tokens.  Ok(the local variables) or Err(the exception raised).          *)
register_decode(resp) ==
    LET r36 == resp_json_of(resp) IN
    IF ~r36.ok THEN r36 ELSE
    LET resp_json == r36.v IN
    IF resp.status_code # 200 THEN Err(Exc("Exception", <<resp_json>>)) ELSE
    LET r40 == Get(resp_json, <<"response", "success">>) IN
    IF ~r40.ok THEN r40 ELSE
    LET success_response == r40.v
        r42 == Subscript(success_response, "tokens") IN
    IF ~r42.ok THEN r42 ELSE
    LET tokens == r42.v
        r43 == Get(tokens, <<"mac_dms", "adp_token">>) IN
    IF ~r43.ok THEN r43 ELSE
    LET r44 == Get(tokens, <<"mac_dms", "device_private_key">>) IN
    IF ~r44.ok THEN r44 ELSE
    LET r45 == Subscript(tokens, "store_authentication_cookie") IN
    IF ~r45.ok THEN r45 ELSE
    LET r46 == Get(tokens, <<"bearer", "access_token">>) IN
    IF ~r46.ok THEN r46 ELSE
    LET r47 == Get(tokens, <<"bearer", "refresh_token">>) IN
    IF ~r47.ok THEN r47 ELSE
    LET r48a == Get(tokens, <<"bearer", "expires_in">>) IN
    IF ~r48a.ok THEN r48a ELSE
    LET r48 == py_int(r48a.v) IN
    IF ~r48.ok THEN r48 ELSE
    Ok([success_response |-> success_response,
        tokens |-> tokens,
        adp_token |-> r43.v,
        device_private_key |-> r44.v,
        store_authentication_cookie |-> r45.v,
        access_token |-> r46.v,
        refresh_token |-> r47.v,
        expires_s |-> r48.v])

(* datetime.utcnow(): the naive datetime showing UTC at true time t, as    *)
(* seconds of wall-clock time.                                             *)
utcnow(t) == t

(* naive.timestamp(): a naive datetime is taken as local time, so the      *)
(* POSIX timestamp is the wall-clock value less the local UTC offset.      *)
timestamp(naive, offset) == naive - offset

(* value.replace('"', '')                                                  *)
Quote == "\""
replace_quotes(value) == SelectSeq(value, LAMBDA c : c # Quote)

(* The items a for loop over x visits: the elements of a list, the keys of *)
(* a dict, the characters of a str; int and None are not iterable.         *)
RECURSIVE KeySeq(_)
KeySeq(ks) ==
    IF ks = {} THEN <<>>
    ELSE LET k == CHOOSE k \in ks : TRUE IN <<Str(<<k>>)>> \o KeySeq(ks \ {k})

iterate(x) ==
    IF x.t = "arr" THEN Ok(x.v)
    ELSE IF x.t = "obj" THEN Ok(KeySeq(DOMAIN x.v))
    ELSE IF x.t = "str" THEN Ok([i \in DOMAIN x.v |-> Str(<<x.v[i]>>)])
    ELSE Err(Exc("TypeError", <<Key(x.t)>>))

(* An assignment that keeps the value a name already has.                  *)
SetItem_keep_first(d, name, value) ==
    [n \in DOMAIN d \cup {name} |-> IF n \in DOMAIN d THEN d[n] ELSE value]

(* website_cookies[name] = value                                           *)
SetItem(d, name, value) ==
    [n \in DOMAIN d \cup {name} |-> IF n = name THEN value ELSE d[n]]

(* A pass of the loop that skips a cookie without Name or Value.           *)
cookie_step_skip(website_cookies, cookie) ==
    IF cookie.t # "obj" \/ ~({"Name", "Value"} \subseteq DOMAIN cookie.v)
    THEN Ok(website_cookies)
    ELSE IF cookie.v.Value.t # "str"
    THEN Err(Exc("AttributeError", <<Key("replace")>>))
    ELSE Ok([n \in DOMAIN website_cookies \cup {cookie.v.Name} |->
                IF n = cookie.v.Name
                THEN Str(SelectSeq(cookie.v.Value.v, LAMBDA c : c # Quote))
                ELSE website_cookies[n]])

(* One pass of the loop of lines 56-57.  The right-hand side is evaluated  *)
(* before the subscript of the target.                                     *)
cookie_step(website_cookies, cookie) ==
    LET rv == Subscript(cookie, "Value") IN
    IF ~rv.ok THEN rv ELSE
    IF rv.v.t # "str" THEN Err(Exc("AttributeError", <<Key("replace")>>)) ELSE
    LET rn == Subscript(cookie, "Name") IN
    IF ~rn.ok THEN rn ELSE
    IF rn.v.t \in {"obj", "arr"} THEN Err(Exc("TypeError", <<Key("unhashable")>>)) ELSE
    Ok(SetItem(website_cookies, rn.v, Str(replace_quotes(rv.v.v))))

RECURSIVE flatten_cookies(_, _)
flatten_cookies(website_cookies, cookies) ==
    IF cookies = <<>> THEN Ok(website_cookies)
    ELSE LET r == cookie_step(website_cookies, Head(cookies))
         IN IF r.ok THEN flatten_cookies(r.v, Tail(cookies)) ELSE r

(* _register, lines 49-69, with the clock reading taken at line 49.        *)
register_finish(l, clock, offset) ==
    LET expires == timestamp(clock + l.expires_s, offset)
        r51 == Subscript(l.success_response, "extensions") IN
    IF ~r51.ok THEN r51 ELSE
    LET r52 == Subscript(r51.v, "device_info") IN
    IF ~r52.ok THEN r52 ELSE
    LET r53 == Subscript(r51.v, "customer_info") IN
    IF ~r53.ok THEN r53 ELSE
    LET r56a == Subscript(l.tokens, "website_cookies") IN
    IF ~r56a.ok THEN r56a ELSE
    LET r56 == iterate(r56a.v) IN
    IF ~r56.ok THEN r56 ELSE
    LET r57 == flatten_cookies(<<>>, r56.v) IN
    IF ~r57.ok THEN r57 ELSE
    Ok([adp_token |-> l.adp_token,
        device_private_key |-> l.device_private_key,
        access_token |-> l.access_token,
        refresh_token |-> l.refresh_token,
        expires |-> expires,
        website_cookies |-> r57.v,
        store_authentication_cookie |-> l.store_authentication_cookie,
        device_info |-> r52.v,
        customer_info |-> r53.v])

(* deregister raising the status code along with the payload.             *)
deregister_finish_with_status(resp) ==
    LET r139 == resp_json_of(resp) IN
    IF ~r139.ok THEN r139 ELSE
    IF ~(resp.status_code = 200)
    THEN Err(Exc("Exception", <<Num(resp.status_code), r139.v>>)) ELSE
    Ok(r139.v)

(* deregister, lines 139-143.                                              *)
deregister_finish(resp) ==
    LET r139 == resp_json_of(resp) IN
    IF ~r139.ok THEN r139 ELSE
    IF ~(resp.status_code = 200) THEN Err(Exc("Exception", <<r139.v>>)) ELSE
    Ok(r139.v)

(* _register, lines 36-69, with the clock read at line 49.                 *)
register_process(resp, clock, offset) ==
    LET r == register_decode(resp)
    IN IF r.ok THEN register_finish(r.v, clock, offset) ELSE r

----------------------------------------------------------------------------
(* The responses the server is taken to send.                              *)

RECURSIVE Numeral(_)
Numeral(n) ==
    IF n < 0 THEN <<"-">> \o Numeral(0 - n)
    ELSE IF n < 10 THEN <<Digits[n + 1]>>
    ELSE Numeral(n \div 10) \o <<Digits[(n % 10) + 1]>>

(* x with the key at the end of the path removed / set to v.               *)
RECURSIVE Remove(_, _)
Remove(x, path) ==
    IF Len(path) = 1
    THEN Obj([k \in DOMAIN x.v \ {path[1]} |-> x.v[k]])
    ELSE Obj([k \in DOMAIN x.v |->
                IF k = path[1] THEN Remove(x.v[k], Tail(path)) ELSE x.v[k]])

RECURSIVE SetAt(_, _, _)
SetAt(x, path, v) ==
    IF Len(path) = 1
    THEN Obj([k \in DOMAIN x.v \cup {path[1]} |-> IF k = path[1] THEN v ELSE x.v[k]])
    ELSE Obj([k \in DOMAIN x.v |->
                IF k = path[1] THEN SetAt(x.v[k], Tail(path), v) ELSE x.v[k]])

SuccessBody(expires_in, cookies) ==
    Obj([response |-> Obj([success |-> Obj(
        [tokens |-> Obj(
            [mac_dms |-> Obj([adp_token |-> Str(<<"{enc:adp}">>),
                              device_private_key |-> Str(<<"MIIE">>)]),
             bearer |-> Obj([access_token |-> Str(<<"Atna|new">>),
                             refresh_token |-> Str(<<"Atnr|new">>),
                             expires_in |-> expires_in]),
             store_authentication_cookie |-> Obj([cookie |-> Str(<<"store">>)]),
             website_cookies |-> Arr(cookies)]),
         extensions |-> Obj(
            [device_info |-> Obj([device_name |-> Str(<<"iPhone">>)]),
             customer_info |-> Obj([user_id |-> Str(<<"amzn1">>)])]),
         customer_id |-> Str(<<"amzn1">>)])])])

TokenPath == <<"response", "success", "tokens">>
ExtensionPath == <<"response", "success", "extensions">>

(* The paths _register reads.                                              *)
RequiredPaths ==
    {<<"response">>, <<"response", "success">>, TokenPath, ExtensionPath,
     TokenPath \o <<"mac_dms">>,
     TokenPath \o <<"mac_dms", "adp_token">>,
     TokenPath \o <<"mac_dms", "device_private_key">>,
     TokenPath \o <<"store_authentication_cookie">>,
     TokenPath \o <<"bearer">>,
     TokenPath \o <<"bearer", "access_token">>,
     TokenPath \o <<"bearer", "refresh_token">>,
     TokenPath \o <<"bearer", "expires_in">>,
     TokenPath \o <<"website_cookies">>,
     ExtensionPath \o <<"device_info">>,
     ExtensionPath \o <<"customer_info">>}

CookieNames == {<<"session-id">>, <<"x-main">>}
CookieValues == {<<"1", Quote>>, <<Quote, "2", Quote>>, <<"3">>}
Cookie(name, value) == Obj([Name |-> Str(name), Value |-> Str(value)])
CookieEntries ==
    {Cookie(n, v) : n \in CookieNames, v \in CookieValues}
    \cup {Obj([Name |-> Str(<<"x-main">>)]),
          Obj([Value |-> Str(<<"3">>)]),
          Obj([Name |-> Str(<<"x-main">>), Value |-> Num(3)])}
CookieLists == UNION {[1..n -> CookieEntries] : n \in 0..MaxCookies}

ExpiresIns ==
    {Num(n) : n \in (-1)..MaxExpiresIn}
    \cup {Str(Numeral(n)) : n \in (-1)..MaxExpiresIn}
    \cup {Str(<<"1", "h">>), Null}

Success0 == SuccessBody(Str(Numeral(MaxExpiresIn)), <<Cookie(<<"x-main">>, <<"3">>)>>)

(* Bodies of a wrong shape.                                                *)
Misshapen ==
    {Remove(Success0, path) : path \in RequiredPaths}
    \cup {SetAt(Success0, <<"response">>, Str(<<"ok">>)),
          SetAt(Success0, <<"response", "success">>, Null),
          SetAt(Success0, TokenPath, Arr(<<>>)),
          SetAt(Success0, TokenPath \o <<"website_cookies">>, Obj(<<>>)),
          SetAt(Success0, TokenPath \o <<"website_cookies">>, Str(<<>>)),
          SetAt(Success0, TokenPath \o <<"website_cookies">>, Str(<<"a">>)),
          SetAt(Success0, TokenPath \o <<"website_cookies">>, Num(0)),
          Arr(<<>>), Null}

ErrorBody ==
    Obj([response |-> Obj([error |-> Obj([code |-> Str(<<"InvalidToken">>)])]),
         request_id |-> Str(<<"r-1">>)])

AckBody == Obj([response |-> Obj([success |-> Obj(<<>>)]), request_id |-> Str(<<"r-2">>)])

ErrorPage == NotJson(<<"<html>Bad Gateway</html>">>)

BasicContents == {Json(Success0), Json(ErrorBody), Json(AckBody), ErrorPage}

(* Every status with the basic contents, and status 200 with every         *)
(* variation of the success body.                                          *)
Responses ==
    {Response(st, c) : st \in Statuses, c \in BasicContents}
    \cup {Response(st, Json(b)) : st \in Statuses, b \in Misshapen}
    \cup {Response(st, Json(SuccessBody(e, <<>>))) : st \in Statuses, e \in ExpiresIns}
    \cup {Response(st, Json(SuccessBody(Num(1), cs))) : st \in {200}, cs \in CookieLists}

----------------------------------------------------------------------------
(* The calls.  Each caller makes one call; a call is suspended only while  *)
(* it waits for the response (line 34, lines 133-137).                     *)

AllArgs == [tokens |-> AccessTokens, codes |-> AuthCodes, verifiers |-> Verifiers,
            domains |-> Domains, serials |-> Serials]
OneArgs == [tokens |-> {<<"Atna|A">>}, codes |-> {<<"codeA">>},
            verifiers |-> {<<"verA">>}, domains |-> {<<"com">>},
            serials |-> {<<"S1">>}]

NoCall == [op |-> "none"]
NoRequest == [url |-> <<>>, json |-> <<>>, headers |-> <<>>]
NoResponse == Response(0, NotJson(<<>>))
NoResult == [kind |-> "none"]
Returned(value) == [kind |-> "return", value |-> value]
Raised(exc) == [kind |-> "raise", exc |-> exc]
Outcome(r) == IF r.ok THEN Returned(r.v) ELSE Raised(r.exc)

(* httpx.post(url, json=json, headers=headers)                             *)
Post(p, url, json, headers) ==
    /\ request' = [request EXCEPT ![p] = [url |-> url, json |-> json, headers |-> headers]]
    /\ posts' = [posts EXCEPT ![p] = @ + 1]
    /\ pc' = [pc EXCEPT ![p] = "waiting"]

Init ==
    /\ now = 0
    /\ tz \in TzOffsets
    /\ pc = [p \in Procs |-> "idle"]
    /\ call = [p \in Procs |-> NoCall]
    /\ request = [p \in Procs |-> NoRequest]
    /\ posts = [p \in Procs |-> 0]
    /\ response = [p \in Procs |-> NoResponse]
    /\ recvAt = [p \in Procs |-> 0]
    /\ clockRead = [p \in Procs |-> 0]
    /\ result = [p \in Procs |-> NoResult]

(* register(access_token, domain, serial), to the POST of line 34.         *)
CallRegister(p, U) ==
    /\ pc[p] = "idle"
    /\ \E access_token \in U.tokens, domain \in U.domains, serial \in U.serials :
        /\ call' = [call EXCEPT ![p] =
                [op |-> "register", access_token |-> access_token,
                 domain |-> domain, serial |-> serial]]
        /\ Post(p, register_url(domain),
                register_body(access_token, domain, serial), <<>>)
    /\ UNCHANGED <<now, tz, response, recvAt, clockRead, result>>

(* register_auth_code(authorization_code, code_verifier, domain, serial),  *)
(* to the POST of line 34.                                                 *)
CallRegisterAuthCode(p, U) ==
    /\ pc[p] = "idle"
    /\ \E authorization_code \in U.codes, code_verifier \in U.verifiers,
          domain \in U.domains, serial \in U.serials :
        /\ call' = [call EXCEPT ![p] =
                [op |-> "register_auth_code",
                 authorization_code |-> authorization_code,
                 code_verifier |-> code_verifier,
                 domain |-> domain, serial |-> serial]]
        /\ Post(p, register_url(domain),
                register_auth_code_body(authorization_code, code_verifier,
                                        domain, serial), <<>>)
    /\ UNCHANGED <<now, tz, response, recvAt, clockRead, result>>

(* deregister(access_token, domain[, deregister_all]), to the POST of      *)
(* lines 133-137.                                                          *)
DeregisterCalls(U) ==
    {[op |-> "deregister", access_token |-> a, domain |-> d] :
        a \in U.tokens, d \in U.domains}
    \cup {[op |-> "deregister", access_token |-> a, domain |-> d,
           deregister_all |-> b] :
        a \in U.tokens, d \in U.domains, b \in BOOLEAN}

CallDeregister(p, U) ==
    /\ pc[p] = "idle"
    /\ \E c \in DeregisterCalls(U) :
        /\ call' = [call EXCEPT ![p] = c]
        /\ Post(p, deregister_url(c.domain),
                deregister_body(deregister_all_param(c)),
                deregister_headers(c.access_token))
    /\ UNCHANGED <<now, tz, response, recvAt, clockRead, result>>

(* The server answers the POST of caller p with a response of R.           *)
Respond(p, R) ==
    /\ pc[p] = "waiting"
    /\ \E r \in R : response' = [response EXCEPT ![p] = r]
    /\ recvAt' = [recvAt EXCEPT ![p] = now]
    /\ pc' = [pc EXCEPT ![p] = "received"]
    /\ UNCHANGED <<now, tz, call, request, posts, clockRead, result>>

(* _register working on a response kept where every call can write it.    *)
RegisterReturn_shared(p) ==
    /\ pc[p] = "received"
    /\ call[p].op \in {"register", "register_auth_code"}
    /\ \E q \in Procs :
        /\ pc[q] \in {"received", "done", "raised"}
        /\ LET r == register_process(response[q], utcnow(now), tz)
           IN /\ result' = [result EXCEPT ![p] = Outcome(r)]
              /\ pc' = [pc EXCEPT ![p] = IF r.ok THEN "done" ELSE "raised"]
        /\ clockRead' = [clockRead EXCEPT ![p] =
                IF register_decode(response[q]).ok THEN now ELSE @]
    /\ UNCHANGED <<now, tz, call, request, posts, response, recvAt>>

(* _register from line 36 to its return or raise.                          *)
RegisterReturn(p) ==
    /\ pc[p] = "received"
    /\ call[p].op \in {"register", "register_auth_code"}
    /\ LET r == register_process(response[p], utcnow(now), tz)
       IN /\ result' = [result EXCEPT ![p] = Outcome(r)]
          /\ pc' = [pc EXCEPT ![p] = IF r.ok THEN "done" ELSE "raised"]
    /\ clockRead' = [clockRead EXCEPT ![p] =
            IF register_decode(response[p]).ok THEN now ELSE @]
    /\ UNCHANGED <<now, tz, call, request, posts, response, recvAt>>

(* deregister from line 139 to its return or raise.                        *)
DeregisterReturn(p) ==
    /\ pc[p] = "received"
    /\ call[p].op = "deregister"
    /\ LET r == deregister_finish(response[p])
       IN /\ result' = [result EXCEPT ![p] = Outcome(r)]
          /\ pc' = [pc EXCEPT ![p] = IF r.ok THEN "done" ELSE "raised"]
    /\ UNCHANGED <<now, tz, call, request, posts, response, recvAt, clockRead>>

(* Time passes.                                                            *)
Tick ==
    /\ now < MaxClock
    /\ now' = now + 1
    /\ UNCHANGED <<tz, pc, call, request, posts, response, recvAt, clockRead, result>>

(* One caller, every shape of response.                                    *)
Next ==
    \/ Tick
    \/ CallRegister("p1", OneArgs)
    \/ CallRegisterAuthCode("p1", OneArgs)
    \/ CallDeregister("p1", OneArgs)
    \/ Respond("p1", Responses)
    \/ RegisterReturn("p1")
    \/ DeregisterReturn("p1")

Spec == Init /\ [][Next]_vars

(* Concurrent callers.                                                     *)
ConcResponses == {Response(st, c) : st \in Statuses, c \in BasicContents}

NextConc ==
    \/ Tick
    \/ \E p \in Procs : CallRegister(p, OneArgs)
    \/ \E p \in Procs : CallRegisterAuthCode(p, OneArgs)
    \/ \E p \in Procs : CallDeregister(p, OneArgs)
    \/ \E p \in Procs : Respond(p, ConcResponses)
    \/ \E p \in Procs : RegisterReturn(p)
    \/ \E p \in Procs : DeregisterReturn(p)

SpecConc == Init /\ [][NextConc]_vars

(* The requests of every call, for all arguments.                          *)
NextBuild ==
    \/ \E p \in Procs : CallRegister(p, AllArgs)
    \/ \E p \in Procs : CallRegisterAuthCode(p, AllArgs)
    \/ \E p \in Procs : CallDeregister(p, AllArgs)

SpecBuild == Init /\ [][NextBuild]_vars

----------------------------------------------------------------------------
(* Vocabulary of the properties.                                           *)

Finished(p) == pc[p] \in {"done", "raised"}
IsRegister(p) == call[p].op \in {"register", "register_auth_code"}
IsDeregister(p) == call[p].op = "deregister"
Status(p) == response[p].status_code
Content(p) == response[p].content
Returns(p) == result[p].kind = "return"
Raises(p) == result[p].kind = "raise"

(* Whether the path exists in x, and the value at it.                      *)
RECURSIVE Present(_, _)
Present(x, path) ==
    \/ path = <<>>
    \/ /\ x.t = "obj"
       /\ Head(path) \in DOMAIN x.v
       /\ Present(x.v[Head(path)], Tail(path))

RECURSIVE ValueAt(_, _)
ValueAt(x, path) == IF path = <<>> THEN x ELSE ValueAt(x.v[Head(path)], Tail(path))

BundleFields ==
    {"adp_token", "device_private_key", "access_token", "refresh_token",
     "expires", "website_cookies", "store_authentication_cookie",
     "device_info", "customer_info"}

----------------------------------------------------------------------------
(* C1: on either endpoint, a response whose status is not 200 makes the    *)
(* call fail with an error whose payload (its argument) is exactly the     *)
(* response body, whatever the body is; nothing is returned.               *)
C1_NonOkRaisesBody ==
    \A p \in Procs :
        Finished(p) /\ Status(p) # 200 =>
            /\ Raises(p)
            /\ result[p].exc.args = <<Content(p).v>>

(* C2: every failure is of the kind of its operation (RegistrationError    *)
(* for the register forms, DeregistrationError for deregister) and carries *)
(* the HTTP status code of the response.                                   *)
ErrorKindOf(op) == IF op = "deregister" THEN "DeregistrationError" ELSE "RegistrationError"

SuccessAbsent(p) ==
    /\ Finished(p) /\ IsRegister(p)
    /\ Status(p) = 200 /\ Content(p).json
    /\ ~Present(Content(p).v, <<"response", "success">>)

----------------------------------------------------------------------------
(* C4: register is all-or-nothing.  A bundle is returned only on status    *)
(* 200 with every path _register reads present in the body and every       *)
(* cookie holding Name and Value; the bundle then has exactly the nine     *)
(* fields, the passed-through ones equal to the response's; in every other *)
(* case the call raises.                                                   *)
CookiesPath == TokenPath \o <<"website_cookies">>

AllExtracted(p) ==
    /\ Status(p) = 200
    /\ Content(p).json
    /\ \A path \in RequiredPaths : Present(Content(p).v, path)
    /\ LET cs == ValueAt(Content(p).v, CookiesPath)
       IN cs.t = "arr" =>
            \A i \in DOMAIN cs.v :
                cs.v[i].t = "obj" /\ {"Name", "Value"} \subseteq DOMAIN cs.v[i].v

C4_AllOrNothing ==
    \A p \in Procs :
        Finished(p) /\ IsRegister(p) =>
            /\ Returns(p) \/ Raises(p)
            /\ ~AllExtracted(p) => Raises(p)
            /\ Returns(p) =>
                LET b == result[p].value
                    body == Content(p).v
                IN /\ DOMAIN b = BundleFields
                   /\ b.adp_token = ValueAt(body, TokenPath \o <<"mac_dms", "adp_token">>)
                   /\ b.device_private_key =
                        ValueAt(body, TokenPath \o <<"mac_dms", "device_private_key">>)
                   /\ b.access_token = ValueAt(body, TokenPath \o <<"bearer", "access_token">>)
                   /\ b.refresh_token = ValueAt(body, TokenPath \o <<"bearer", "refresh_token">>)
                   /\ b.store_authentication_cookie =
                        ValueAt(body, TokenPath \o <<"store_authentication_cookie">>)
                   /\ b.device_info = ValueAt(body, ExtensionPath \o <<"device_info">>)
                   /\ b.customer_info = ValueAt(body, ExtensionPath \o <<"customer_info">>)

(* A cookie without Name, after a well-formed one, made the call raise.    *)
C4_Witness ==
    \E p \in Procs :
        /\ IsRegister(p) /\ Raises(p) /\ Status(p) = 200
        /\ Content(p) = Json(SuccessBody(Num(1),
                <<Cookie(<<"x-main">>, <<"3">>), Obj([Value |-> Str(<<"3">>)])>>))

(* C6: website_cookies of a returned bundle has exactly the names of the   *)
(* response's cookie sequence, each mapped to the Value of the last entry  *)
(* of that name with every double quote removed.                           *)
RECURSIVE WithoutQuotes(_)
WithoutQuotes(value) ==
    IF value = <<>> THEN <<>>
    ELSE IF Head(value) = Quote THEN WithoutQuotes(Tail(value))
    ELSE <<Head(value)>> \o WithoutQuotes(Tail(value))

C6_CookiesLastWins ==
    \A p \in Procs :
        Returns(p) /\ IsRegister(p) =>
            LET cs == ValueAt(Content(p).v, CookiesPath)
                jar == result[p].value.website_cookies
            IN cs.t = "arr" =>
                /\ DOMAIN jar = {cs.v[i].v.Name : i \in DOMAIN cs.v}
                /\ \A n \in DOMAIN jar :
                    LET last == CHOOSE i \in DOMAIN cs.v :
                                    /\ cs.v[i].v.Name = n
                                    /\ \A j \in DOMAIN cs.v : cs.v[j].v.Name = n => j <= i
                    IN jar[n] = Str(WithoutQuotes(cs.v[last].v.Value.v))

(* The sequence (session-id, 1"), (x-main, "2"), (session-id, 3) was       *)
(* flattened.                                                              *)
C6_Witness ==
    \E p \in Procs :
        /\ Returns(p) /\ IsRegister(p)
        /\ ValueAt(Content(p).v, CookiesPath) =
                Arr(<<Cookie(<<"session-id">>, <<"1", Quote>>),
                      Cookie(<<"x-main">>, <<Quote, "2", Quote>>),
                      Cookie(<<"session-id">>, <<"3">>)>>)
        /\ result[p].value.website_cookies =
                (Str(<<"session-id">>) :> Str(<<"3">>)) @@ (Str(<<"x-main">>) :> Str(<<"2">>))

(* C7: in a successful register call the clock is read after the response  *)
(* was received, and the expiry returned is that clock reading plus        *)
(* expires_in as an integer number of seconds.                             *)
ExpiresIn(p) == py_int(ValueAt(Content(p).v, TokenPath \o <<"bearer", "expires_in">>)).v

C7_ExpiryIsClockPlusExpiresIn ==
    \A p \in Procs :
        Returns(p) /\ IsRegister(p) =>
            /\ recvAt[p] <= clockRead[p]
            /\ result[p].value.expires = clockRead[p] + ExpiresIn(p)

(* C8: the expiry of every returned bundle is strictly later than the      *)
(* instant at which the response was received.                             *)
C8_ExpiresAfterReceipt ==
    \A p \in Procs :
        Returns(p) /\ IsRegister(p) => result[p].value.expires > recvAt[p]

----------------------------------------------------------------------------
(* C5: for the same domain and serial, the bodies posted by register and   *)
(* by register_auth_code have the same keys and agree on every key other   *)
(* than auth_data, whatever the auth inputs; they differ in auth_data.     *)
SameDevice(p, q) ==
    /\ call[p].op = "register" /\ call[q].op = "register_auth_code"
    /\ call[p].domain = call[q].domain
    /\ call[p].serial = call[q].serial

C5_BodiesDifferOnlyInAuthData ==
    \A p, q \in Procs :
        SameDevice(p, q) =>
            LET a == request[p].json
                b == request[q].json
            IN /\ DOMAIN a = DOMAIN b
               /\ "auth_data" \in DOMAIN a
               /\ \A k \in DOMAIN a \ {"auth_data"} : a[k] = b[k]
               /\ a.auth_data # b.auth_data

C5_Witness ==
    \E p, q \in Procs :
        /\ SameDevice(p, q)
        /\ pc[p] = "waiting" /\ pc[q] = "waiting"
        /\ call[p].domain = <<"de">> /\ call[p].serial = <<"S2">>

(* C9: a deregister call sends one request whose body is exactly           *)
(* {deregister_all_existing_accounts: b}, b being true only when the       *)
(* caller passed deregister_all = true, and whose Authorization header is  *)
(* "Bearer " followed by the access_token argument.                        *)
C9_DeregisterRequest ==
    \A p \in Procs :
        IsDeregister(p) =>
            /\ posts[p] = 1
            /\ request[p].url =
                    <<"https://api.amazon.">> \o call[p].domain \o <<"/auth/deregister">>
            /\ DOMAIN request[p].json = {"deregister_all_existing_accounts"}
            /\ request[p].json.deregister_all_existing_accounts \in BOOLEAN
            /\ request[p].json.deregister_all_existing_accounts <=>
                    /\ "deregister_all" \in DOMAIN call[p]
                    /\ call[p].deregister_all
            /\ DOMAIN request[p].headers = {"Authorization"}
            /\ request[p].headers.Authorization = <<"Bearer ">> \o call[p].access_token

(* A call that left deregister_all out sent false.                         *)
C9_Witness ==
    \E p \in Procs :
        /\ IsDeregister(p) /\ pc[p] = "waiting"
        /\ "deregister_all" \notin DOMAIN call[p]
        /\ request[p].json = [deregister_all_existing_accounts |-> FALSE]

(* C10: under every interleaving each call sends exactly one POST, the one *)
(* its own arguments determine, touches nothing of another call, and ends  *)
(* as it would alone with the same arguments, response and clock reading.  *)
SoloRequest(c) ==
    IF c.op = "register"
    THEN [url |-> register_url(c.domain),
          json |-> register_body(c.access_token, c.domain, c.serial),
          headers |-> <<>>]
    ELSE IF c.op = "register_auth_code"
    THEN [url |-> register_url(c.domain),
          json |-> register_auth_code_body(c.authorization_code, c.code_verifier,
                                           c.domain, c.serial),
          headers |-> <<>>]
    ELSE [url |-> deregister_url(c.domain),
          json |-> deregister_body(deregister_all_param(c)),
          headers |-> deregister_headers(c.access_token)]

SoloResult(c, resp, clock, offset) ==
    Outcome(IF c.op = "deregister" THEN deregister_finish(resp)
            ELSE register_process(resp, utcnow(clock), offset))

C10_CallsAreIndependent ==
    \A p \in Procs :
        /\ pc[p] = "idle" =>
                /\ posts[p] = 0 /\ call[p] = NoCall /\ request[p] = NoRequest
                /\ response[p] = NoResponse /\ result[p] = NoResult
        /\ pc[p] # "idle" => posts[p] = 1 /\ request[p] = SoloRequest(call[p])
        /\ pc[p] = "waiting" => response[p] = NoResponse /\ result[p] = NoResult
        /\ pc[p] = "received" => result[p] = NoResult
        /\ Finished(p) =>
                result[p] = SoloResult(call[p], response[p], clockRead[p], tz)

(* Two calls that overlapped: a register that returned a bundle and a      *)
(* deregister that failed, the register having been sent first and         *)
(* answered last.                                                          *)
C10_Witness ==
    \E p, q \in Procs :
        /\ IsRegister(p) /\ Returns(p)
        /\ IsDeregister(q) /\ Raises(q)
        /\ Status(q) = 503
        /\ recvAt[q] < recvAt[p]

====
